---- MODULE Spec2Model ----
(***************************************************************************)
(* Read strategies of arrow-odbc: the per-column policies that describe    *)
(* the ODBC buffer to bind and turn a filled column view into an Arrow     *)
(* array (src/read_strategy/map_odbc_to_arrow.rs, src/read_strategy/       *)
(* text.rs).                                                               *)
(*                                                                         *)
(* One behaviour follows one column: a strategy is constructed (identical, *)
(* map_with or choose_text_strategy), then buffer_desc and                 *)
(* fill_arrow_array are called in any order, batch after batch.  `op` and  *)
(* `ret` hold the last call and what it returned; `calls` logs what the    *)
(* call touched (mapping function, presence indicators, decoder).          *)
(***************************************************************************)
EXTENDS Integers, Sequences, FiniteSets, TLC

VARIABLES windows, strategy, ctor, firstDesc, op, ret, calls

vars == <<windows, strategy, ctor, firstDesc, op, ret, calls>>

\* Largest length the column metadata, the display-size query or the
\* configured maximum text size report; also the largest max_str_len.
MaxLen == 2
\* Largest number of rows in one batch (one column view).
MaxRows == 2
\* Largest value of a fixed-width slot.
MaxVal == 1

(***************************************************************************)
(* Rust's Option and Result, and a panic (unwrap / expect on a failure).   *)
(***************************************************************************)
None == <<>>
Some(x) == <<x>>
Option(S) == {None} \cup {Some(x) : x \in S}

Ok(v) == [kind |-> "Ok", val |-> v]
Err(e) == [kind |-> "Err", err |-> e]
Panic == [kind |-> "Panic"]

SeqUpTo(S, n) == UNION {[1..k -> S] : k \in 0..n}

(***************************************************************************)
(* Slot values, column views and mapping functions.                        *)
(***************************************************************************)
Values == 0..MaxVal

\* What a caller-supplied odbc_to_arrow closure may answer for a value v: a
\* native Arrow value, or a MappingError carrying v.
MappingError(v) == [error |-> "MappingError", value |-> v]
MapResults(v) == {Ok(t) : t \in Values} \cup {Err(MappingError(v))}
MapFns == {f \in [Values -> UNION {MapResults(v) : v \in Values}] :
             \A v \in Values : f[v] \in MapResults(v)}

\* A view of a buffer bound without indicators: the slots.
SliceViews == SeqUpTo(Values, MaxRows)
\* A view of a buffer bound with indicators: per row the indicator and the
\* slot, which holds arbitrary bytes when the row is NULL.
NullableSliceViews == SeqUpTo([present : BOOLEAN, slot : Values], MaxRows)

NoStrategy == [variant |-> "none"]
NoCalls == [mapped |-> <<>>, presence |-> <<>>, decoded |-> <<>>]

\* The text values a buffer of max_str_len elements per row can hold: NULL
\* or up to max_str_len code units.
TextViews(alphabet, max_str_len) ==
    SeqUpTo(Option(SeqUpTo(alphabet, max_str_len)), MaxRows)
\* UTF-16 code units a wide buffer is filled with: 'A', a leading and a
\* trailing surrogate (together U+1F600).
WideUnits == {65, 55357, 56832}
\* Bytes a narrow buffer is filled with: 'A' and the two bytes of U+00E9.
NarrowBytes == {65, 195, 169}

(***************************************************************************)
(* map_odbc_to_arrow.rs: the factory.                                      *)
(***************************************************************************)
NonNullDirectStrategy_new == [variant |-> "NonNullDirectStrategy"]
NullableDirectStrategy_new == [variant |-> "NullableDirectStrategy"]
NonNullableStrategy_new(odbc_to_arrow) ==
    [variant |-> "NonNullableStrategy", odbc_to_arrow |-> odbc_to_arrow]
NullableStrategy_new(odbc_to_arrow) ==
    [variant |-> "NullableStrategy", odbc_to_arrow |-> odbc_to_arrow]

\* Mutation: the nullable flag is tested the wrong way round.
map_with_inverted(nullable, odbc_to_arrow) ==
    IF nullable THEN NonNullableStrategy_new(odbc_to_arrow)
    ELSE NullableStrategy_new(odbc_to_arrow)

map_with(nullable, odbc_to_arrow) ==
    IF nullable THEN NullableStrategy_new(odbc_to_arrow)
    ELSE NonNullableStrategy_new(odbc_to_arrow)

identical(nullable) ==
    IF nullable THEN NullableDirectStrategy_new
    ELSE NonNullDirectStrategy_new

\* Item::buffer_desc(nullable): a fixed-width buffer, with or without
\* indicators.
Item_buffer_desc(nullable) == [kind |-> "Item", nullable |-> nullable]

(***************************************************************************)
(* map_odbc_to_arrow.rs: fill_arrow_array of the four primitive            *)
(* strategies.  An array is the sequence of its elements, Some(v) or None  *)
(* (null).  Each returns the Result and the log of what it touched.        *)
(***************************************************************************)
Filled(r, mapped, presence) ==
    [ret |-> r, calls |-> [mapped |-> mapped, presence |-> presence, decoded |-> <<>>]]
FilledText(r, decoded) ==
    [ret |-> r, calls |-> [mapped |-> <<>>, presence |-> <<>>, decoded |-> decoded]]

\* builder.append_slice(slice); builder.finish()
NonNullDirect_fill_arrow_array(slice) ==
    Filled(Ok([i \in 1..Len(slice) |-> Some(slice[i])]), <<>>, <<>>)

\* The NullableSlice iterator: the indicator decides, the slot is read only
\* for a present row.
nullable_item(row) == IF row.present THEN Some(row.slot) ELSE None

RECURSIVE NullableDirect_loop(_, _, _, _)
NullableDirect_loop(values, i, builder, presence) ==
    IF i > Len(values) THEN Filled(Ok(builder), <<>>, presence)
    ELSE NullableDirect_loop(values, i + 1,
                             Append(builder, nullable_item(values[i])),
                             Append(presence, i))

\* Mutation: the slots are copied without looking at the indicators.
NullableDirect_fill_ignoring_indicator(values) ==
    Filled(Ok([i \in 1..Len(values) |-> Some(values[i].slot)]), <<>>, <<>>)

NullableDirect_fill_arrow_array(values) ==
    NullableDirect_loop(values, 1, <<>>, <<>>)

\* for odbc_value in slice { builder.append_value((self.odbc_to_arrow)(odbc_value)?) }
RECURSIVE NonNullable_loop(_, _, _, _, _)
NonNullable_loop(odbc_to_arrow, slice, i, builder, mapped) ==
    IF i > Len(slice) THEN Filled(Ok(builder), mapped, <<>>)
    ELSE LET r == odbc_to_arrow[slice[i]] IN
         IF r.kind = "Err" THEN Filled(r, Append(mapped, i), <<>>)
         ELSE NonNullable_loop(odbc_to_arrow, slice, i + 1,
                               Append(builder, Some(r.val)), Append(mapped, i))

\* Mutation: every row is mapped before the first failure is reported.
NonNullable_fill_maps_all_rows(odbc_to_arrow, slice) ==
    LET n == Len(slice)
        failing == {i \in 1..n : odbc_to_arrow[slice[i]].kind = "Err"}
        all == [i \in 1..n |-> i]
    IN IF failing = {}
       THEN Filled(Ok([i \in 1..n |-> Some(odbc_to_arrow[slice[i]].val)]), all, <<>>)
       ELSE Filled(odbc_to_arrow[slice[CHOOSE i \in failing : \A j \in failing : i <= j]],
                   all, <<>>)

NonNullable_fill_arrow_array(odbc_to_arrow, slice) ==
    NonNullable_loop(odbc_to_arrow, slice, 1, <<>>, <<>>)

\* for odbc_opt in opts {
\*     builder.append_option(odbc_opt.map(&self.odbc_to_arrow).transpose()?) }
RECURSIVE Nullable_loop(_, _, _, _, _, _)
Nullable_loop(odbc_to_arrow, opts, i, builder, mapped, presence) ==
    IF i > Len(opts) THEN Filled(Ok(builder), mapped, presence)
    ELSE LET odbc_opt == nullable_item(opts[i]) IN
         IF odbc_opt = None
         THEN Nullable_loop(odbc_to_arrow, opts, i + 1, Append(builder, None),
                            mapped, Append(presence, i))
         ELSE LET r == odbc_to_arrow[odbc_opt[1]] IN
              IF r.kind = "Err"
              THEN Filled(r, Append(mapped, i), Append(presence, i))
              ELSE Nullable_loop(odbc_to_arrow, opts, i + 1,
                                 Append(builder, Some(r.val)),
                                 Append(mapped, i), Append(presence, i))

\* Mutation: the slot is mapped first and the indicator applied afterwards.
RECURSIVE Nullable_loop_maps_absent_rows(_, _, _, _, _, _)
Nullable_loop_maps_absent_rows(odbc_to_arrow, opts, i, builder, mapped, presence) ==
    IF i > Len(opts) THEN Filled(Ok(builder), mapped, presence)
    ELSE LET r == odbc_to_arrow[opts[i].slot] IN
         IF r.kind = "Err"
         THEN Filled(r, Append(mapped, i), Append(presence, i))
         ELSE Nullable_loop_maps_absent_rows(odbc_to_arrow, opts, i + 1,
                  Append(builder, IF opts[i].present THEN Some(r.val) ELSE None),
                  Append(mapped, i), Append(presence, i))

Nullable_fill_maps_absent_rows(odbc_to_arrow, opts) ==
    Nullable_loop_maps_absent_rows(odbc_to_arrow, opts, 1, <<>>, <<>>, <<>>)

Nullable_fill_arrow_array(odbc_to_arrow, opts) ==
    Nullable_loop(odbc_to_arrow, opts, 1, <<>>, <<>>, <<>>)

(***************************************************************************)
(* text.rs: choose_text_strategy.  A SQL type is its kind and the length   *)
(* its metadata reports: always one for the text kinds (utf8_len and       *)
(* utf16_len are unwrapped), possibly none for the others (display_size).  *)
(***************************************************************************)
NarrowKinds == {"LongVarchar", "Varchar", "Char"}
WideKinds == {"WVarchar", "WChar"}
SqlTypes ==
    [kind : NarrowKinds \cup WideKinds, len : {Some(n) : n \in 0..MaxLen}]
      \cup [kind : {"Other"}, len : Option(0..MaxLen)]

\* What the lazy display-size query answers when it is invoked: an ODBC
\* error or an isize, which drivers may report negative.
QueryAnswers == {Err("odbc_error")} \cup {Ok(n) : n \in (-1)..MaxLen}

is_narrow(sql_type) == sql_type.kind \in NarrowKinds
is_wide(sql_type) == sql_type.kind \in WideKinds
is_text(sql_type) == is_narrow(sql_type) \/ is_wide(sql_type)

\* odbc-api derives these from the declared column size; the model keeps the
\* value the call returns, in the unit asked for.
utf16_len(sql_type) == sql_type.len
utf8_len(sql_type) == sql_type.len
display_size(sql_type) == sql_type.len

\* Mutation: the configured maximum replaces the length instead of capping it.
apply_buffer_limit_without_min(len, max_text_size, sql_type) ==
    IF len = 0 /\ max_text_size = None
    THEN Err([error |-> "ZeroSizedColumn", sql_type |-> sql_type])
    ELSE IF max_text_size = None THEN Ok(len)
    ELSE Ok(max_text_size[1])

min(a, b) == IF a <= b THEN a ELSE b

apply_buffer_limit(len, max_text_size, sql_type) ==
    IF len = 0 /\ max_text_size = None
    THEN Err([error |-> "ZeroSizedColumn", sql_type |-> sql_type])
    ELSE IF len = 0 THEN Ok(max_text_size[1])
    ELSE IF max_text_size = None THEN Ok(len)
    ELSE Ok(min(len, max_text_size[1]))

WideText_new(max_str_len) == [variant |-> "WideText", max_str_len |-> max_str_len]
NarrowText_new(max_str_len) == [variant |-> "NarrowText", max_str_len |-> max_str_len]
wide_text_strategy(u16_len) == WideText_new(u16_len)
narrow_text_strategy(octet_len) == NarrowText_new(octet_len)

\* Mutation: a wide-declared type takes the wide strategy on every platform.
text_is_wide_when_declared(sql_type, win) == win \/ is_wide(sql_type)

\* Whether the text branch takes the wide strategy: cfg!(target_os = "windows").
text_is_wide(sql_type, win) == win

\* sql_type.display_size().map(|ds| Ok(ds as isize)).unwrap_or_else(lazy_display_size):
\* the answer and how often the closure ran.
display_size_or_query(sql_type, lazy_display_size) ==
    IF display_size(sql_type) # None
    THEN [answer |-> Ok(display_size(sql_type)[1]), queries |-> 0]
    ELSE [answer |-> lazy_display_size, queries |-> 1]

\* isize -> usize: try_into().unwrap()
try_into_usize(n) == IF n < 0 THEN Panic ELSE Ok(n)

\* Returns the Result (or the panic) and the number of times the lazy query ran.
choose_text_strategy(sql_type, lazy_display_size, max_text_size, win) ==
    IF is_text(sql_type)
    THEN LET len == IF text_is_wide(sql_type, win)
                    THEN utf16_len(sql_type)[1] ELSE utf8_len(sql_type)[1]
             lim == apply_buffer_limit(len, max_text_size, sql_type)
         IN [ret |-> IF lim.kind = "Err" THEN lim
                     ELSE IF text_is_wide(sql_type, win)
                          THEN Ok(wide_text_strategy(lim.val))
                          ELSE Ok(narrow_text_strategy(lim.val)),
             queries |-> 0]
    ELSE LET q == display_size_or_query(sql_type, lazy_display_size)
             size == IF q.answer.kind = "Err" THEN q.answer
                     ELSE try_into_usize(q.answer.val)
             lim == apply_buffer_limit(size.val, max_text_size, sql_type)
         IN [ret |-> IF q.answer.kind = "Err"
                     THEN Err([error |-> "UnknownStringLength", sql_type |-> sql_type,
                               source |-> q.answer.err])
                     ELSE IF size.kind = "Panic" THEN Panic
                     ELSE IF lim.kind = "Err" THEN lim
                     ELSE Ok(narrow_text_strategy(lim.val)),
             queries |-> q.queries]

(***************************************************************************)
(* text.rs: WideText::fill_arrow_array.                                    *)
(***************************************************************************)
is_utf16_surrogate(u) == u >= 55296 /\ u <= 57343

\* std::char::decode_utf16: the Results the iterator yields, in order.
RECURSIVE decode_utf16(_)
decode_utf16(units) ==
    IF units = <<>> THEN <<>>
    ELSE LET u == Head(units) IN
         IF ~is_utf16_surrogate(u) THEN <<Ok(u)>> \o decode_utf16(Tail(units))
         ELSE IF u >= 56320 THEN <<Err(u)>> \o decode_utf16(Tail(units))
         ELSE IF Len(units) = 1 THEN <<Err(u)>>
         ELSE LET u2 == units[2] IN
              IF u2 < 56320 \/ u2 > 57343
              THEN <<Err(u)>> \o decode_utf16(Tail(units))
              ELSE <<Ok(65536 + ((u - 55296) * 1024 + (u2 - 56320)))>>
                     \o decode_utf16(Tail(Tail(units)))

\* String::push: the UTF-8 bytes of one char.
encode_utf8(c) ==
    IF c < 128 THEN <<c>>
    ELSE IF c < 2048 THEN <<192 + (c \div 64), 128 + (c % 64)>>
    ELSE IF c < 65536
         THEN <<224 + (c \div 4096), 128 + ((c \div 64) % 64), 128 + (c % 64)>>
    ELSE <<240 + (c \div 262144), 128 + ((c \div 4096) % 64),
           128 + ((c \div 64) % 64), 128 + (c % 64)>>

\* Mutation: a malformed sequence is replaced by U+FFFD instead of unwrapped.
RECURSIVE push_decoded_lossy(_, _)
push_decoded_lossy(chars, buf_utf8) ==
    IF chars = <<>> THEN Ok(buf_utf8)
    ELSE push_decoded_lossy(Tail(chars),
             buf_utf8 \o encode_utf8(IF Head(chars).kind = "Err" THEN 65533
                                     ELSE Head(chars).val))

\* for c in decode_utf16(..) { buf_utf8.push(c.unwrap()); }
RECURSIVE push_decoded(_, _)
push_decoded(chars, buf_utf8) ==
    IF chars = <<>> THEN Ok(buf_utf8)
    ELSE IF Head(chars).kind = "Err" THEN Panic
    ELSE push_decoded(Tail(chars), buf_utf8 \o encode_utf8(Head(chars).val))

\* Mutation: the conversion buffer is not cleared between rows.
clear_nothing(buf_utf8) == buf_utf8

\* buf_utf8.clear()
clear(buf_utf8) == <<>>

RECURSIVE WideText_loop(_, _, _, _, _)
WideText_loop(view, i, buf_utf8, builder, decoded) ==
    IF i > Len(view) THEN FilledText(Ok(builder), decoded)
    ELSE LET cleared == clear(buf_utf8)
             value == view[i]
         IN IF value = None
            THEN WideText_loop(view, i + 1, cleared, Append(builder, None), decoded)
            ELSE LET r == push_decoded(decode_utf16(value[1]), cleared) IN
                 IF r.kind = "Panic" THEN FilledText(Panic, Append(decoded, i))
                 ELSE WideText_loop(view, i + 1, r.val,
                                    Append(builder, Some(r.val)), Append(decoded, i))

WideText_fill_arrow_array(view) == WideText_loop(view, 1, <<>>, <<>>, <<>>)

(***************************************************************************)
(* text.rs: NarrowText::fill_arrow_array.                                  *)
(***************************************************************************)
IsCont(b) == b >= 128 /\ b <= 191

\* std::str::from_utf8: whether the bytes are well-formed UTF-8.
RECURSIVE utf8_valid(_)
utf8_valid(bytes) ==
    IF bytes = <<>> THEN TRUE
    ELSE LET n == Len(bytes)
             b == bytes[1]
             rest(k) == utf8_valid(SubSeq(bytes, k + 1, n))
         IN IF b < 128 THEN rest(1)
            ELSE IF b >= 194 /\ b <= 223
                 THEN n >= 2 /\ IsCont(bytes[2]) /\ rest(2)
            ELSE IF b >= 224 /\ b <= 239
                 THEN /\ n >= 3
                      /\ IsCont(bytes[2]) /\ IsCont(bytes[3])
                      /\ (b = 224 => bytes[2] >= 160)
                      /\ (b = 237 => bytes[2] <= 159)
                      /\ rest(3)
            ELSE IF b >= 240 /\ b <= 244
                 THEN /\ n >= 4
                      /\ IsCont(bytes[2]) /\ IsCont(bytes[3]) /\ IsCont(bytes[4])
                      /\ (b = 240 => bytes[2] >= 144)
                      /\ (b = 244 => bytes[2] <= 143)
                      /\ rest(4)
            ELSE FALSE

\* std::str::from_utf8(bytes).expect(..)
from_utf8_expect(bytes) == IF utf8_valid(bytes) THEN Ok(bytes) ELSE Panic

RECURSIVE NarrowText_loop(_, _, _, _)
NarrowText_loop(view, i, builder, decoded) ==
    IF i > Len(view) THEN FilledText(Ok(builder), decoded)
    ELSE IF view[i] = None
         THEN NarrowText_loop(view, i + 1, Append(builder, None), decoded)
         ELSE LET r == from_utf8_expect(view[i][1]) IN
              IF r.kind = "Panic" THEN FilledText(Panic, Append(decoded, i))
              ELSE NarrowText_loop(view, i + 1, Append(builder, Some(r.val)),
                                   Append(decoded, i))

NarrowText_fill_arrow_array(view) == NarrowText_loop(view, 1, <<>>, <<>>)

(***************************************************************************)
(* ReadStrategy::buffer_desc.                                              *)
(***************************************************************************)
NonNullDirect_buffer_desc == Item_buffer_desc(FALSE)
NullableDirect_buffer_desc == Item_buffer_desc(TRUE)
NonNullable_buffer_desc == Item_buffer_desc(FALSE)
Nullable_buffer_desc == Item_buffer_desc(TRUE)
WideText_buffer_desc(self) == [kind |-> "WText", max_str_len |-> self.max_str_len]
NarrowText_buffer_desc(self) == [kind |-> "Text", max_str_len |-> self.max_str_len]

\* The call through Box<dyn ReadStrategy>.
buffer_desc(s) ==
    CASE s.variant = "NonNullDirectStrategy" -> NonNullDirect_buffer_desc
      [] s.variant = "NullableDirectStrategy" -> NullableDirect_buffer_desc
      [] s.variant = "NonNullableStrategy" -> NonNullable_buffer_desc
      [] s.variant = "NullableStrategy" -> Nullable_buffer_desc
      [] s.variant = "WideText" -> WideText_buffer_desc(s)
      [] s.variant = "NarrowText" -> NarrowText_buffer_desc(s)

(***************************************************************************)
(* The state machine.                                                      *)
(***************************************************************************)
Alive == ret.kind # "Panic"

\* The platform is fixed when the crate is compiled: either build may run.
Init ==
    /\ windows \in BOOLEAN
    /\ strategy = NoStrategy
    /\ ctor = [fn |-> "none"]
    /\ firstDesc = None
    /\ op = [name |-> "none"]
    /\ ret = [kind |-> "None"]
    /\ calls = NoCalls

Identical ==
    /\ Alive /\ strategy = NoStrategy
    /\ \E nullable \in BOOLEAN :
         /\ strategy' = identical(nullable)
         /\ ctor' = [fn |-> "identical", nullable |-> nullable]
         /\ op' = [name |-> "identical", nullable |-> nullable]
    /\ ret' = Ok(strategy')
    /\ calls' = NoCalls
    /\ UNCHANGED <<windows, firstDesc>>

MapWith ==
    /\ Alive /\ strategy = NoStrategy
    /\ \E nullable \in BOOLEAN, odbc_to_arrow \in MapFns :
         /\ strategy' = map_with(nullable, odbc_to_arrow)
         /\ ctor' = [fn |-> "map_with", nullable |-> nullable]
         /\ op' = [name |-> "map_with", nullable |-> nullable]
    /\ ret' = Ok(strategy')
    /\ calls' = NoCalls
    /\ UNCHANGED <<windows, firstDesc>>

ChooseTextStrategy ==
    /\ Alive /\ strategy = NoStrategy
    /\ \E sql_type \in SqlTypes, max_text_size \in Option(0..MaxLen),
          lazy_display_size \in QueryAnswers :
         LET out == choose_text_strategy(sql_type, lazy_display_size,
                                         max_text_size, windows)
         IN /\ op' = [name |-> "choose_text_strategy", sql_type |-> sql_type,
                      max_text_size |-> max_text_size,
                      lazy_display_size |-> IF out.queries > 0
                                            THEN Some(lazy_display_size) ELSE None,
                      queries |-> out.queries]
            /\ ret' = out.ret
            /\ strategy' = IF out.ret.kind = "Ok" THEN out.ret.val ELSE NoStrategy
            /\ ctor' = IF out.ret.kind = "Ok"
                       THEN [fn |-> "choose_text_strategy"] ELSE ctor
    /\ calls' = NoCalls
    /\ UNCHANGED <<windows, firstDesc>>

BufferDesc ==
    /\ Alive /\ strategy # NoStrategy
    /\ op' = [name |-> "buffer_desc"]
    /\ ret' = Ok(buffer_desc(strategy))
    /\ firstDesc' = IF firstDesc = None THEN Some(buffer_desc(strategy)) ELSE firstDesc
    /\ calls' = NoCalls
    /\ UNCHANGED <<windows, strategy, ctor>>

\* The fetch loop between two conversions (fill, convert, repeat): the
\* caller has taken the array or the error, the buffer is refilled and the
\* previous view is gone.
NextBatch ==
    /\ Alive /\ op.name = "fill_arrow_array"
    /\ op' = [name |-> "fetch"]
    /\ ret' = [kind |-> "None"]
    /\ calls' = NoCalls
    /\ UNCHANGED <<windows, strategy, ctor, firstDesc>>

\* One conversion per fetched batch.
Fill(view, filled) ==
    /\ op.name # "fill_arrow_array"
    /\ op' = [name |-> "fill_arrow_array", view |-> view]
    /\ ret' = filled.ret
    /\ calls' = filled.calls
    /\ UNCHANGED <<windows, strategy, ctor, firstDesc>>

FillNonNullDirect ==
    /\ Alive /\ strategy.variant = "NonNullDirectStrategy"
    /\ \E view \in SliceViews : Fill(view, NonNullDirect_fill_arrow_array(view))

FillNullableDirect ==
    /\ Alive /\ strategy.variant = "NullableDirectStrategy"
    /\ \E view \in NullableSliceViews : Fill(view, NullableDirect_fill_arrow_array(view))

FillNonNullable ==
    /\ Alive /\ strategy.variant = "NonNullableStrategy"
    /\ \E view \in SliceViews :
         Fill(view, NonNullable_fill_arrow_array(strategy.odbc_to_arrow, view))

FillNullable ==
    /\ Alive /\ strategy.variant = "NullableStrategy"
    /\ \E view \in NullableSliceViews :
         Fill(view, Nullable_fill_arrow_array(strategy.odbc_to_arrow, view))

FillWideText ==
    /\ Alive /\ strategy.variant = "WideText"
    /\ \E view \in TextViews(WideUnits, strategy.max_str_len) :
         Fill(view, WideText_fill_arrow_array(view))

FillNarrowText ==
    /\ Alive /\ strategy.variant = "NarrowText"
    /\ \E view \in TextViews(NarrowBytes, strategy.max_str_len) :
         Fill(view, NarrowText_fill_arrow_array(view))

Next ==
    \/ Identical
    \/ MapWith
    \/ ChooseTextStrategy
    \/ BufferDesc
    \/ NextBatch
    \/ FillNonNullDirect
    \/ FillNullableDirect
    \/ FillNonNullable
    \/ FillNullable
    \/ FillWideText
    \/ FillNarrowText

Spec == Init /\ [][Next]_vars

(***************************************************************************)
(* Properties.  Shared vocabulary first.                                   *)
(***************************************************************************)
IsChoose == op.name = "choose_text_strategy"
IsFill == op.name = "fill_arrow_array"
FromFactory == ctor.fn \in {"identical", "map_with"}
Iota(n) == [i \in 1..n |-> i]

\* The buffer-length rules of the text selector, stated on the outcome of the
\* last choose_text_strategy call for a computed length L and a maximum C.
PlannedOutcome(L, C) ==
    IF L = 0 /\ C = None
    THEN /\ ret.kind = "Err"
         /\ ret.err.error = "ZeroSizedColumn"
         /\ strategy = NoStrategy
    ELSE /\ ret.kind = "Ok"
         /\ strategy = ret.val
         /\ LET got == buffer_desc(strategy).max_str_len IN
            /\ (L > 0 /\ C # None /\ L <= C[1] => got = L)
            /\ (L > 0 /\ C # None /\ C[1] <= L => got = C[1])
            /\ (L > 0 /\ C = None => got = L)
            /\ (L = 0 => got = C[1])

\* The length the last choose_text_strategy call computed, if any: the one
\* the metadata reports, else a non-negative size the query answered.
ComputedLength ==
    IF op.sql_type.len # None THEN op.sql_type.len
    ELSE IF /\ op.lazy_display_size # None
            /\ op.lazy_display_size[1].kind = "Ok"
            /\ op.lazy_display_size[1].val >= 0
         THEN Some(op.lazy_display_size[1].val)
         ELSE None

\* C1: for every computed length L >= 0 and optional maximum C the descriptor
\* of the returned strategy carries min(L, C) when L > 0 and C is set, L when
\* L > 0 and no maximum is set, C when L = 0 and C is set; with L = 0 and no
\* maximum the call returns a zero-sized-column error and no strategy.
C1_BufferLengthRules ==
    IsChoose /\ ComputedLength # None
        => PlannedOutcome(ComputedLength[1], op.max_text_size)

\* C1 witness: a length above the configured maximum is cut to the maximum.
C1_Witness ==
    /\ IsChoose /\ ComputedLength = Some(2) /\ op.max_text_size = Some(1)
    /\ ret.kind = "Ok" /\ buffer_desc(strategy).max_str_len = 1

\* Rows of the converted view on which the mapping function fails.
FailingRows(f, rows) == {i \in 1..Len(rows) : f[rows[i]].kind = "Err"}
FirstOf(S) == CHOOSE i \in S : \A j \in S : i <= j

\* C2: a mapped non-null convert returns the failure of the first failing
\* row and no array, having invoked the mapping function exactly once on each
\* row up to and including that row and on no later row; with no failing row
\* it returns an array as long as the view whose element i is the mapping of
\* slot i.
C2_MappedNonNullFailFast ==
    IsFill /\ strategy.variant = "NonNullableStrategy" =>
        LET f == strategy.odbc_to_arrow
            failing == FailingRows(f, op.view)
        IN IF failing # {}
           THEN /\ ret = f[op.view[FirstOf(failing)]]
                /\ ret.kind = "Err"
                /\ calls.mapped = Iota(FirstOf(failing))
           ELSE /\ ret.kind = "Ok"
                /\ Len(ret.val) = Len(op.view)
                /\ \A i \in 1..Len(op.view) : ret.val[i] = Some(f[op.view[i]].val)
                /\ calls.mapped = Iota(Len(op.view))

\* C2 witness: the first row fails and a later row exists.
C2_Witness ==
    /\ IsFill /\ strategy.variant = "NonNullableStrategy"
    /\ Len(op.view) = 2
    /\ FailingRows(strategy.odbc_to_arrow, op.view) = {1, 2}
    /\ op.view[1] # op.view[2]
    /\ ret.kind = "Err" /\ ret.err.value = op.view[1]

AlwaysFails(f) == \A v \in Values : f[v].kind = "Err"
NoDuplicates(sq) == \A i, j \in 1..Len(sq) : sq[i] = sq[j] => i = j

\* C3: a mapped nullable convert never invokes the mapping function for an
\* absent row and at most once for a present row, and every absent row is
\* null at its index; with a mapping function that fails on every input an
\* all-absent batch converts to an all-null array of the same length, and a
\* batch with a present row returns the mapping failure and no array.
C3_AbsentRowsBypassMapping ==
    IsFill /\ strategy.variant = "NullableStrategy" =>
        LET f == strategy.odbc_to_arrow
            n == Len(op.view)
            present == {i \in 1..n : op.view[i].present}
        IN /\ \A k \in 1..Len(calls.mapped) : calls.mapped[k] \in present
           /\ NoDuplicates(calls.mapped)
           /\ ret.kind = "Ok" =>
                /\ Len(ret.val) = n
                /\ \A i \in (1..n) \ present : ret.val[i] = None
           /\ AlwaysFails(f) /\ present = {} => ret = Ok([i \in 1..n |-> None])
           /\ AlwaysFails(f) /\ present # {} =>
                /\ ret.kind = "Err"
                /\ ret.err.error = "MappingError"

\* C3 witness: two absent rows over non-zero slots, a mapping function that
\* always fails, and an all-null array.
C3_Witness ==
    /\ IsFill /\ strategy.variant = "NullableStrategy"
    /\ AlwaysFails(strategy.odbc_to_arrow)
    /\ Len(op.view) = 2
    /\ \A i \in 1..2 : ~op.view[i].present /\ op.view[i].slot = 1
    /\ ret = Ok(<<None, None>>)

\* C4: a direct convert always succeeds with an array as long as the view;
\* on a non-null column element i is slot i unchanged, on a nullable column
\* element i is null when row i is absent, whatever the slot holds, and the
\* slot unchanged when row i is present.
C4_DirectCopy ==
    /\ IsFill /\ strategy.variant = "NonNullDirectStrategy" =>
         /\ ret.kind = "Ok"
         /\ Len(ret.val) = Len(op.view)
         /\ \A i \in 1..Len(op.view) : ret.val[i] = Some(op.view[i])
    /\ IsFill /\ strategy.variant = "NullableDirectStrategy" =>
         /\ ret.kind = "Ok"
         /\ Len(ret.val) = Len(op.view)
         /\ \A i \in 1..Len(op.view) :
              /\ ~op.view[i].present => ret.val[i] = None
              /\ op.view[i].present => ret.val[i] = Some(op.view[i].slot)

\* C4 witness: an absent row over a non-zero slot next to a present row.
C4_Witness ==
    /\ IsFill /\ strategy.variant = "NullableDirectStrategy"
    /\ Len(op.view) = 2
    /\ ~op.view[1].present /\ op.view[1].slot = 1
    /\ op.view[2].present /\ op.view[2].slot = 1
    /\ ret = Ok(<<None, Some(1)>>)

\* C5 (as claimed): wide buffers for WVarchar and WChar on every platform;
\* for Char, Varchar and LongVarchar wide buffers on Windows and narrow
\* buffers elsewhere.
C5_WideForWideDeclaredEverywhere ==
    IsChoose /\ ret.kind = "Ok" /\ is_text(op.sql_type) =>
        buffer_desc(strategy).kind =
            IF is_wide(op.sql_type) \/ windows THEN "WText" ELSE "Text"

\* C5 (amended): the platform alone decides for every SQL text type, wide-
\* or narrow-declared: wide buffers on Windows, narrow buffers elsewhere.
C5_PlatformDecidesEncoding ==
    IsChoose /\ ret.kind = "Ok" /\ is_text(op.sql_type) =>
        buffer_desc(strategy).kind = IF windows THEN "WText" ELSE "Text"

\* C5 witness: a wide-declared column bound to a narrow buffer off Windows.
C5_Witness ==
    /\ IsChoose /\ ret.kind = "Ok" /\ ~windows
    /\ op.sql_type.kind = "WVarchar"
    /\ buffer_desc(strategy) = [kind |-> "Text", max_str_len |-> 2]

(***************************************************************************)
(* Reference encodings for the code units and bytes the views are filled   *)
(* with, as tables: a sequence is well formed when it is the encoding of a *)
(* sequence of scalar values.                                              *)
(***************************************************************************)
WideScalars == {65, 128512}
NarrowScalars == {65, 233}
Utf16Table == [c \in WideScalars |-> IF c = 65 THEN <<65>> ELSE <<55357, 56832>>]
Utf8Table ==
    [c \in WideScalars \cup NarrowScalars |->
        IF c = 65 THEN <<65>>
        ELSE IF c = 233 THEN <<195, 169>>
        ELSE <<240, 159, 152, 128>>]

RECURSIVE Encoded(_, _)
Encoded(table, scalars) ==
    IF scalars = <<>> THEN <<>>
    ELSE table[Head(scalars)] \o Encoded(table, Tail(scalars))

\* The scalar sequences `encoded` is the encoding of (none: malformed).
Decodings(table, alphabet, encoded) ==
    {cs \in SeqUpTo(alphabet, Len(encoded)) : Encoded(table, cs) = encoded}

WellFormedWide(units) == Decodings(Utf16Table, WideScalars, units) # {}
WellFormedNarrow(bytes) == Decodings(Utf8Table, NarrowScalars, bytes) # {}

\* C6: a wide-text convert of well-formed values yields an array as long as
\* the view in which every absent value is null, with no decoding done for
\* it, and every present value is the UTF-8 string of exactly its characters,
\* with nothing of an earlier row in it.
C6_WideTextTranscoding ==
    /\ IsFill /\ strategy.variant = "WideText"
    /\ \A i \in 1..Len(op.view) : op.view[i] # None => WellFormedWide(op.view[i][1])
    => /\ ret.kind = "Ok"
       /\ Len(ret.val) = Len(op.view)
       /\ \A i \in 1..Len(op.view) :
            IF op.view[i] = None
            THEN /\ ret.val[i] = None
                 /\ \A k \in 1..Len(calls.decoded) : calls.decoded[k] # i
            ELSE /\ ret.val[i] # None
                 /\ \A cs \in Decodings(Utf16Table, WideScalars, op.view[i][1]) :
                      ret.val[i] = Some(Encoded(Utf8Table, cs))
                 /\ utf8_valid(ret.val[i][1])

\* C6 witness: a surrogate pair in the first row, "A" in the second.
C6_Witness ==
    /\ IsFill /\ strategy.variant = "WideText"
    /\ op.view = <<Some(<<55357, 56832>>), Some(<<65>>)>>
    /\ ret = Ok(<<Some(<<240, 159, 152, 128>>), Some(<<65>>)>>)

\* C8: a text view with an invalidly encoded present value never converts to
\* an array: a malformed UTF-16 sequence in a wide view, or bytes that are
\* not UTF-8 in a narrow view, end the convert in a panic, which is neither
\* an array nor a MappingError.
C8_InvalidEncodingPanics ==
    /\ IsFill /\ strategy.variant = "WideText"
       /\ (\E i \in 1..Len(op.view) :
             op.view[i] # None /\ ~WellFormedWide(op.view[i][1]))
         => ret = Panic
    /\ IsFill /\ strategy.variant = "NarrowText"
       /\ (\E i \in 1..Len(op.view) :
             op.view[i] # None /\ ~WellFormedNarrow(op.view[i][1]))
         => ret = Panic

\* C8 witness: a well-formed first row, then a leading surrogate followed by
\* "A".
C8_Witness ==
    /\ IsFill /\ strategy.variant = "WideText"
    /\ op.view = <<Some(<<65>>), Some(<<55357, 65>>)>>
    /\ ret = Panic

\* C7 (as claimed): when the length comes from the display-size query the
\* call completes with a strategy or a column-description failure: a failing
\* query gives an unknown-string-length failure carrying the SQL type and the
\* error, with or without a maximum, and any answered size, negative ones
\* included, is coerced to a non-negative length that goes through the
\* maximum and zero-length rules.
C7_QueryAlwaysCompletes ==
    IsChoose /\ op.queries > 0 =>
        LET answer == op.lazy_display_size[1] IN
        /\ ret.kind \in {"Ok", "Err"}
        /\ answer.kind = "Err" =>
             /\ ret = Err([error |-> "UnknownStringLength",
                           sql_type |-> op.sql_type, source |-> answer.err])
             /\ strategy = NoStrategy
        /\ answer.kind = "Ok" =>
             \E L \in 0..MaxLen :
                /\ answer.val >= 0 => L = answer.val
                /\ PlannedOutcome(L, op.max_text_size)

\* C10 (as claimed): the query runs at most once per call, and exactly when
\* the metadata reports no length; a reported length is used directly, and
\* otherwise the answered size is the computed length the maximum and
\* zero-length rules are applied to.
C10_QueryOnlyWhenUnreported ==
    IsChoose =>
        /\ op.queries <= 1
        /\ op.queries = 1 <=> op.sql_type.len = None
        /\ op.sql_type.len # None =>
             PlannedOutcome(op.sql_type.len[1], op.max_text_size)
        /\ op.queries = 1 /\ op.lazy_display_size[1].kind = "Ok" =>
             /\ ret.kind # "Panic"
             /\ op.lazy_display_size[1].val >= 0 =>
                  PlannedOutcome(op.lazy_display_size[1].val, op.max_text_size)

\* The part of C10 that holds of the code: the clauses above for every call
\* in which the query does not answer a negative size.
C10_ExceptNegativeAnswers ==
    /\ IsChoose
    /\ ~(/\ op.lazy_display_size # None
         /\ op.lazy_display_size[1].kind = "Ok"
         /\ op.lazy_display_size[1].val < 0)
    => C10_QueryOnlyWhenUnreported

DescriptorStable ==
    /\ firstDesc # None => buffer_desc(strategy) = firstDesc[1]
    /\ op.name = "buffer_desc" => ret = Ok(firstDesc[1])
DescriptorMatchesFlag ==
    FromFactory => buffer_desc(strategy) = [kind |-> "Item", nullable |-> ctor.nullable]
NonNullIgnoresPresence ==
    IsFill /\ FromFactory /\ ~ctor.nullable => calls.presence = <<>>

\* C9 (as claimed): buffer_desc keeps returning the descriptor of its first
\* call whatever was converted in between; a factory strategy's descriptor
\* has the nullability given at construction; a non-null strategy never reads
\* presence information and a nullable one checks it for every row.
C9_PresenceCheckedForEveryRow ==
    /\ DescriptorStable
    /\ DescriptorMatchesFlag
    /\ NonNullIgnoresPresence
    /\ IsFill /\ FromFactory /\ ctor.nullable =>
         calls.presence = Iota(Len(op.view))

\* C9 (amended): as claimed, except that a nullable strategy checks presence
\* for every row up to and including the row on which the mapping function
\* fails, and for every row when the convert returns an array.
C9_PresenceCheckedUntilFailure ==
    /\ DescriptorStable
    /\ DescriptorMatchesFlag
    /\ NonNullIgnoresPresence
    /\ IsFill /\ FromFactory /\ ctor.nullable =>
         /\ ret.kind = "Ok" => calls.presence = Iota(Len(op.view))
         /\ ret.kind = "Err" =>
              calls.presence =
                 Iota(FirstOf({i \in 1..Len(op.view) :
                                 /\ op.view[i].present
                                 /\ strategy.odbc_to_arrow[op.view[i].slot].kind = "Err"}))

\* C9 witness: a described nullable mapped strategy whose convert failed on
\* the first of two rows.
C9_Witness ==
    /\ IsFill /\ ctor = [fn |-> "map_with", nullable |-> TRUE]
    /\ firstDesc = Some([kind |-> "Item", nullable |-> TRUE])
    /\ Len(op.view) = 2
    /\ ret.kind = "Err"
    /\ calls.presence = <<1>>

====
